---- MODULE Spec2Model ----
(***************************************************************************)
(* Model of fastle.                                                        *)
(* The worker (src/src/worker/index.ts):                                   *)
(*   - the fastest_times table and the POST /api/solve handler, whose      *)
(*     three database statements are separate awaits and so interleave     *)
(*     with the statements of other requests;                              *)
(*   - the pure functions evaluate(guess, answer), getGameNumber() and     *)
(*     getDailyWord(), the latter two as functions of the clock;           *)
(*   - the handlers of GET /api/game and POST /api/guess.                  *)
(* The page (src/src/react-app/App.tsx): the game number it loads, its     *)
(* rows of guesses, its keyboard states and the solve it posts.            *)
(***************************************************************************)
EXTENDS Integers, Sequences, FiniteSets, TLC

VARIABLES fastest_times, pc, req, current, resp, guess, answer, result, evalPc,
          now, dateStr, hashI, hash, wordIndex, hashPc, gameLog,
          gReq, gResp,
          gameNumber, guesses, keyStates, solved, startTime, submitting,
          timeout, posted

solveVars == <<fastest_times, pc, req, current, resp>>
evalVars == <<guess, answer, result, evalPc>>
\* the clock and the frame of getDailyWord
hashVars == <<now, dateStr, hashI, hash, wordIndex, hashPc>>
\* what the handlers of /api/solve and evaluate leave alone
\* the request and the response of POST /api/guess
guessVars == <<gReq, gResp>>
\* the state of the page (App.tsx), its pending setTimeout callback and the
\* bodies it has posted to /api/solve
clientVars == <<gameNumber, guesses, keyStates, solved, startTime, submitting,
                timeout, posted>>
restVars == <<hashVars, gameLog, guessVars, clientVars>>
vars == <<solveVars, evalVars, restVars>>

(* ---------------------------- bounds ----------------------------------- *)

\* number of rows of accepted guesses on the page
MaxRows == 2
\* number of GET /api/game requests in one run
MaxGameCalls == 2

\* number of POST /api/solve requests in one run
NumReq == 3
\* at most MaxInFlight requests overlap in the concurrent specification
MaxInFlight == 2

Reqs == 1..NumReq
\* gameNumber values submitted
Games == {1, 2}
\* numGuesses values submitted
GuessCounts == {1, 2}
\* timeMs values submitted by overlapping requests (the spec's 420 / 419)
Times == {419, 420}
\* timeMs values submitted one after another (the spec's 500, 300, 700)
SeqTimes == {300, 500, 700}

Min(S) == CHOOSE x \in S : \A y \in S : x <= y

(* ------------------------ fastest_times table -------------------------- *)
\* A table is a set of rows; game_number is the primary key.  The column
\* created_at is never read by the worker and is left out.

Row(g, t, n) == [game_number |-> g, time_ms |-> t, num_guesses |-> n]

\* SELECT ... FROM fastest_times WHERE game_number = ?  followed by .first():
\* the empty set is null, otherwise the single row of that key.
SelectRow(table, g) == {row \in table : row.game_number = g}

\* INSERT OR REPLACE with a row that drops every other row of the table.
UpsertDropsOthers(table, g, t, n) == {Row(g, t, n)}

\* INSERT OR REPLACE that keeps the num_guesses of the row it replaces.
UpsertKeepsGuesses(table, g, t, n) ==
    IF SelectRow(table, g) = {}
    THEN table \cup {Row(g, t, n)}
    ELSE {row \in table : row.game_number # g}
           \cup {Row(g, t, old.num_guesses) : old \in SelectRow(table, g)}

\* INSERT OR REPLACE INTO fastest_times (game_number, time_ms, num_guesses):
\* the row of the same primary key, if any, is replaced as a whole.
Upsert(table, g, t, n) ==
    {row \in table : row.game_number # g} \cup {Row(g, t, n)}

\* the condition with <= in place of <
ShouldWriteOnTie(cur, timeMs) ==
    cur = {} \/ \E row \in cur : timeMs <= row.time_ms

\* the condition that only ever inserts the first record
ShouldWriteFirstOnly(cur, timeMs) == cur = {}

\* if (!current || timeMs < current.time_ms)
ShouldWrite(cur, timeMs) ==
    cur = {} \/ \E row \in cur : timeMs < row.time_ms

\* { fastestTimeMs: fastest?.time_ms ?? null, fastestGuesses: ... ?? null }
\* a nullable number is a set of at most one number; {} is null
Response(fastest) ==
    [fastestTimeMs |-> {row.time_ms : row \in fastest},
     fastestGuesses |-> {row.num_guesses : row \in fastest}]

NoBody == [gameNumber |-> 0, timeMs |-> 0, numGuesses |-> 0]

(* ------------------------- POST /api/solve ----------------------------- *)

InFlight == {r \in Reqs : pc[r] \in {"check", "reread"}}

\* the request body is parsed and the first SELECT runs
SolveSelect(r, g, t, n) ==
    /\ pc[r] = "idle"
    /\ \A q \in Reqs : q < r => pc[q] # "idle"   \* requests are numbered as they arrive
    /\ req' = [req EXCEPT ![r] = [gameNumber |-> g, timeMs |-> t, numGuesses |-> n]]
    /\ current' = [current EXCEPT ![r] = SelectRow(fastest_times, g)]
    /\ pc' = [pc EXCEPT ![r] = "check"]
    /\ UNCHANGED <<fastest_times, resp, evalVars, restVars>>

\* a request arriving while fewer than MaxInFlight requests are in flight
SolveSelectConcurrent(r) ==
    /\ pc[r] = "idle"
    /\ Cardinality(InFlight) < MaxInFlight
    /\ \E g \in Games, t \in Times, n \in GuessCounts : SolveSelect(r, g, t, n)

\* a request arriving when no other request is in flight
SolveSelectAlone(r) ==
    /\ pc[r] = "idle"
    /\ InFlight = {}
    /\ \E g \in Games, t \in SeqTimes, n \in GuessCounts : SolveSelect(r, g, t, n)

\* the comparison against the row read earlier and the conditional write
SolveWrite(r) ==
    /\ pc[r] = "check"
    /\ fastest_times' =
         IF ShouldWrite(current[r], req[r].timeMs)
         THEN Upsert(fastest_times, req[r].gameNumber, req[r].timeMs, req[r].numGuesses)
         ELSE fastest_times
    /\ pc' = [pc EXCEPT ![r] = "reread"]
    /\ UNCHANGED <<req, current, resp, evalVars, restVars>>

\* the second SELECT and the JSON response
SolveRespond(r) ==
    /\ pc[r] = "reread"
    /\ resp' = [resp EXCEPT ![r] = Response(SelectRow(fastest_times, req[r].gameNumber))]
    /\ pc' = [pc EXCEPT ![r] = "done"]
    /\ UNCHANGED <<fastest_times, req, current, evalVars, restVars>>

InitSolve ==
    /\ fastest_times = {}
    /\ pc = [r \in Reqs |-> "idle"]
    /\ req = [r \in Reqs |-> NoBody]
    /\ current = [r \in Reqs |-> {}]
    /\ resp = [r \in Reqs |-> Response({})]

EvalIdle ==
    /\ guess = <<>>
    /\ answer = <<>>
    /\ result = <<>>
    /\ evalPc = "idle"

\* no call of getDailyWord is in progress
DailyWordIdle ==
    /\ dateStr = <<>>
    /\ hashI = 0
    /\ hash = 0
    /\ wordIndex = 0
    /\ hashPc = "idle"

HashIdle == now = 0 /\ DailyWordIdle

\* no POST /api/guess has been received
GuessIdle == gReq = {} /\ gResp = {}

\* the page as useState initializes it; null is the empty set, keyStates {} is
\* the function with the empty domain
ClientInit ==
    /\ gameNumber = {}
    /\ guesses = <<>>
    /\ keyStates = <<>>
    /\ solved = FALSE
    /\ startTime = {}
    /\ submitting = FALSE
    /\ timeout = {}
    /\ posted = {}

RestIdle == HashIdle /\ gameLog = <<>> /\ GuessIdle /\ ClientInit

Init == InitSolve /\ EvalIdle /\ RestIdle

Next ==
    \/ \E r \in Reqs : SolveSelectConcurrent(r)
    \/ \E r \in Reqs : SolveWrite(r)
    \/ \E r \in Reqs : SolveRespond(r)

\* requests handled concurrently: their statements interleave freely
Spec == Init /\ [][Next]_vars

NextSeq ==
    \/ \E r \in Reqs : SolveSelectAlone(r)
    \/ \E r \in Reqs : SolveWrite(r)
    \/ \E r \in Reqs : SolveRespond(r)

\* requests handled one after another, without overlap
SpecSeq == Init /\ [][NextSeq]_vars

(* ------------------------------ evaluate ------------------------------- *)

\* a guess and an answer have 5 letters
WordLen == 5
Positions == 1..WordLen

\* letters of the words evaluated; "_" is the mark of a consumed letter
Letters == {"a", "b", "e"}
speed == <<"s", "p", "e", "e", "d">>
erase == <<"e", "r", "a", "s", "e">>
EvalWords == [Positions -> Letters] \cup {speed, erase}
EvalLetters == Letters \cup {w[i] : w \in {speed, erase}, i \in Positions}

\* Array.prototype.indexOf: the first position holding x, 0 for "not found"
\* (positions are 1-based here, so 0 stands for the code's -1)
IndexOf(letters, x) ==
    IF \E i \in DOMAIN letters : letters[i] = x
    THEN Min({i \in DOMAIN letters : letters[i] = x})
    ELSE 0

\* the state of the two loops: result, answerLetters, guessLetters
EvalStart(g, a) ==
    [result |-> [i \in Positions |-> "absent"], answerLetters |-> a, guessLetters |-> g]

\* a first pass that marks nothing
FirstPassSkipped(s, i) == s

\* body of the first loop, for position i
FirstPassStep(s, i) ==
    IF s.guessLetters[i] = s.answerLetters[i]
    THEN [result |-> [s.result EXCEPT ![i] = "correct"],
          answerLetters |-> [s.answerLetters EXCEPT ![i] = "_"],
          guessLetters |-> [s.guessLetters EXCEPT ![i] = "_"]]
    ELSE s

\* a second pass that does not consume the answer letter it matched
SecondPassNoConsume(s, i) ==
    IF s.guessLetters[i] = "_"
    THEN s
    ELSE IF IndexOf(s.answerLetters, s.guessLetters[i]) # 0
         THEN [s EXCEPT !.result[i] = "present"]
         ELSE s

\* a second pass that consumes every occurrence of the letter it matched
SecondPassConsumeAll(s, i) ==
    IF s.guessLetters[i] = "_"
    THEN s
    ELSE IF IndexOf(s.answerLetters, s.guessLetters[i]) # 0
         THEN [result |-> [s.result EXCEPT ![i] = "present"],
               answerLetters |-> [j \in Positions |->
                                    IF s.answerLetters[j] = s.guessLetters[i]
                                    THEN "_" ELSE s.answerLetters[j]],
               guessLetters |-> s.guessLetters]
         ELSE s

\* a second pass without the "continue" on a consumed guess letter
SecondPassNoSkip(s, i) ==
    LET idx == IndexOf(s.answerLetters, s.guessLetters[i])
    IN  IF idx # 0
        THEN [result |-> [s.result EXCEPT ![i] = "present"],
              answerLetters |-> [s.answerLetters EXCEPT ![idx] = "_"],
              guessLetters |-> s.guessLetters]
        ELSE s

\* body of the second loop, for position i
SecondPassStep(s, i) ==
    IF s.guessLetters[i] = "_"
    THEN s
    ELSE LET idx == IndexOf(s.answerLetters, s.guessLetters[i])
         IN  IF idx # 0
             THEN [result |-> [s.result EXCEPT ![i] = "present"],
                   answerLetters |-> [s.answerLetters EXCEPT ![idx] = "_"],
                   guessLetters |-> s.guessLetters]
             ELSE s

RECURSIVE FirstPass(_, _)
\* for (let i = 0; i < 5; i++), first loop, from position i on
FirstPass(s, i) ==
    IF i > WordLen THEN s ELSE FirstPass(FirstPassStep(s, i), i + 1)

RECURSIVE SecondPassBackward(_, _)
\* the second loop run from the last position down to position i
SecondPassBackward(s, i) ==
    IF i > WordLen THEN s ELSE SecondPassStep(SecondPassBackward(s, i + 1), i)

RECURSIVE SecondPass(_, _)
\* for (let i = 0; i < 5; i++), second loop, from position i on
SecondPass(s, i) ==
    IF i > WordLen THEN s ELSE SecondPass(SecondPassStep(s, i), i + 1)

evaluate(g, a) == SecondPass(FirstPass(EvalStart(g, a), 1), 1).result

\* a call evaluate(guess, answer) returns
EvaluateCall ==
    /\ evalPc = "call"
    /\ result' = evaluate(guess, answer)
    /\ evalPc' = "return"
    /\ UNCHANGED <<guess, answer, solveVars, restVars>>

InitEval ==
    /\ InitSolve
    /\ RestIdle
    /\ guess \in EvalWords
    /\ answer \in EvalWords
    /\ result = <<>>
    /\ evalPc = "call"

NextEval == EvaluateCall

\* evaluate applied to every pair of words of EvalWords
SpecEval == InitEval /\ [][NextEval]_vars

(* ------------------------- clock and calendar -------------------------- *)
\* The clock "now" is now.getTime() - start.getTime(): milliseconds since
\* 2025-01-01T00:00:00Z, the instant getGameNumber calls start.

MsPerDay == 86400000
\* days from 1970-01-01 to 2025-01-01
EpochDay == 20089

\* days around the epoch on which the clock is sampled
ClockDays == -24..23
\* the first and the last millisecond of each of these days, and noon
ClockTimes == {d * MsPerDay + off : d \in ClockDays, off \in {0, 43200000, MsPerDay - 1}}

\* an epoch that is midnight of a zone one hour off UTC
getGameNumberLocalEpoch(t) == (t - 3600000) \div MsPerDay

\* Math.floor((now.getTime() - start.getTime()) / 86400000)
getGameNumber(t) == t \div MsPerDay

\* the proleptic Gregorian date of a day counted from 1970-01-01, as Date
\* computes getUTCFullYear / getUTCMonth / getUTCDate
CivilFromDays(days) ==
    LET z == days + 719468
        era == z \div 146097
        doe == z - era * 146097
        yoe == (doe - doe \div 1460 + doe \div 36524 - doe \div 146096) \div 365
        doy == doe - (365 * yoe + yoe \div 4 - yoe \div 100)
        mp == (5 * doy + 2) \div 153
        m == IF mp < 10 THEN mp + 3 ELSE mp - 9
    IN  [year |-> yoe + era * 400 + (IF m <= 2 THEN 1 ELSE 0),
         month |-> m - 1,
         date |-> doy - (153 * mp + 2) \div 5 + 1]

\* the UTC fields of new Date() when the clock reads t; month is 0-based
UTCFields(t) == CivilFromDays(EpochDay + t \div MsPerDay)

RECURSIVE Decimal(_)
\* the char codes of the decimal digits of n >= 0, as a template literal
\* prints a number
Decimal(n) ==
    IF n < 10 THEN <<48 + n>> ELSE Append(Decimal(n \div 10), 48 + (n % 10))

\* `${today.getUTCFullYear()}-${today.getUTCMonth() + 1}-${today.getUTCDate()}`
\* as char codes; 45 is "-"
DateString(t) ==
    LET f == UTCFields(t)
    IN  Decimal(f.year) \o <<45>> \o Decimal(f.month + 1) \o <<45>> \o Decimal(f.date)

(* ---------------------------- getDailyWord ----------------------------- *)
\* 32-bit integers are handled as two 16-bit halves so that no intermediate
\* value leaves the range of a 32-bit integer.

MinInt32 == -2147483647 - 1
MaxInt32 == 2147483647

Hi16(x) == x \div 65536
Lo16(x) == x % 65536
Wrap16(h) == ((h + 32768) % 65536) - 32768

\* ToInt32 of the number h * 65536 + l
ToInt32(h, l) == Wrap16(h + (l \div 65536)) * 65536 + (l % 65536)

\* hash << 5
ShiftLeft5(x) == ToInt32(Hi16(x) * 32, Lo16(x) * 32)

\* the loop body with + in place of -: hash * 33 + charCode
HashStepTimes33(h, c) ==
    LET sh == ShiftLeft5(h)
    IN  ToInt32(Hi16(sh) + Hi16(h), Lo16(sh) + Lo16(h) + c)

\* hash = ((hash << 5) - hash) + charCode; hash |= 0
HashStep(h, c) ==
    LET sh == ShiftLeft5(h)
    IN  ToInt32(Hi16(sh) - Hi16(h), Lo16(sh) - Lo16(h) + c)

RECURSIVE HashOf(_, _, _)
\* the loop over dateStr from index i (0-based) on, entered with hash h, which
\* "hash |= 0" keeps a signed 32-bit integer
HashOf(str, i, h) ==
    IF i >= Len(str) \/ h \notin MinInt32..MaxInt32
    THEN h
    ELSE HashOf(str, i + 1, HashStep(h, str[i + 1]))

\* the word list of ./words: lowercase 5-letter words
WORDS ==
    << <<"s", "p", "e", "e", "d">>, <<"e", "r", "a", "s", "e">>,
       <<"e", "a", "s", "e", "l">>, <<"l", "e", "a", "s", "e">>,
       <<"s", "e", "e", "d", "s">>, <<"d", "r", "e", "a", "d">>,
       <<"a", "d", "d", "e", "r">> >>
WORD_SET == {WORDS[k] : k \in DOMAIN WORDS}

\* Math.abs(hash) % WORDS.length; Math.abs(-2^31) is 2^31, a double
SelectIndex(h, n) ==
    IF h = MinInt32 THEN ((MaxInt32 % n) + 1) % n
    ELSE (IF h < 0 THEN -h ELSE h) % n

\* getDailyWord() when the clock reads t
getDailyWord(t) == WORDS[SelectIndex(HashOf(DateString(t), 0, 0), Len(WORDS)) + 1]

\* one iteration of the loop of lines 21-24
HashLoop ==
    /\ hashPc = "loop"
    /\ hashI < Len(dateStr)
    /\ hash' = HashStep(hash, dateStr[hashI + 1])
    /\ hashI' = hashI + 1
    /\ UNCHANGED <<now, dateStr, wordIndex, hashPc, gameLog, guessVars, clientVars, solveVars, evalVars>>

\* the loop is left and the index into WORDS is computed
HashReturn ==
    /\ hashPc = "loop"
    /\ hashI >= Len(dateStr)
    /\ wordIndex' = SelectIndex(hash, Len(WORDS))
    /\ hashPc' = "return"
    /\ UNCHANGED <<now, dateStr, hashI, hash, gameLog, guessVars, clientVars, solveVars, evalVars>>

\* getDailyWord is entered at a clock reading of ClockTimes: lines 18-20
InitHash ==
    /\ InitSolve
    /\ EvalIdle
    /\ now \in ClockTimes
    /\ dateStr = DateString(now)
    /\ hashI = 0
    /\ hash = 0
    /\ wordIndex = 0
    /\ hashPc = "loop"
    /\ gameLog = <<>>
    /\ GuessIdle
    /\ ClientInit

NextHash == HashLoop \/ HashReturn

\* getDailyWord run on every clock reading of ClockTimes
SpecHash == InitHash /\ [][NextHash]_vars

(* ---------------------------- GET /api/game ---------------------------- *)

\* clock readings around the epoch and around the midnights next to it
GameDays == -2..2
GameTimes == {d * MsPerDay + off : d \in GameDays, off \in {0, 43200000, MsPerDay - 1}}

\* time passes, up to a later reading of T
TickTo(T) ==
    /\ \E t \in T : t > now /\ now' = t
    /\ UNCHANGED <<dateStr, hashI, hash, wordIndex, hashPc>>

ClockTick ==
    /\ TickTo(GameTimes)
    /\ UNCHANGED <<gameLog, guessVars, clientVars, solveVars, evalVars>>

\* app.get("/api/game"): the response, logged with the clock reading
GameHandler ==
    /\ Len(gameLog) < MaxGameCalls
    /\ gameLog' = Append(gameLog, [at |-> now, gameNumber |-> getGameNumber(now)])
    /\ UNCHANGED <<hashVars, guessVars, clientVars, solveVars, evalVars>>

InitClock ==
    /\ InitSolve
    /\ EvalIdle
    /\ DailyWordIdle
    /\ now \in GameTimes
    /\ GuessIdle
    /\ ClientInit
    /\ gameLog = <<>>

NextClock == ClockTick \/ GameHandler

\* GET /api/game answered at clock readings of GameTimes
SpecClock == InitClock /\ [][NextClock]_vars

(* --------------------------- POST /api/guess --------------------------- *)
\* A string is a sequence of one-character strings.

\* String.prototype.toLowerCase on the characters that occur in requests
LowerOf == ("S" :> "s") @@ ("P" :> "p") @@ ("E" :> "e") @@ ("D" :> "d")
toLowerCase(str) ==
    [i \in 1..Len(str) |-> IF str[i] \in DOMAIN LowerOf THEN LowerOf[str[i]] ELSE str[i]]

RECURSIVE TrimStart(_)
TrimStart(str) ==
    IF str # <<>> /\ Head(str) = " " THEN TrimStart(Tail(str)) ELSE str

RECURSIVE TrimEnd(_)
TrimEnd(str) ==
    IF str # <<>> /\ str[Len(str)] = " "
    THEN TrimEnd(SubSeq(str, 1, Len(str) - 1))
    ELSE str

\* String.prototype.trim
trim(str) == TrimEnd(TrimStart(str))

BadLength == [status |-> 400, body |-> [error |-> "Word must be 5 letters"]]
NotInList == [status |-> 400, body |-> [error |-> "Not in word list"]]

\* the handler with the vocabulary looked up before the length is checked
GuessResponseVocabularyFirst(body, t, t2) ==
    LET word == trim(toLowerCase(body))
    IN  IF word \notin WORD_SET THEN NotInList
        ELSE IF Len(word) # 5 THEN BadLength
        ELSE [status |-> 200,
              body |-> [result |-> evaluate(word, getDailyWord(t)),
                        solved |-> word = getDailyWord(t)]]

\* the handler deriving the answer a second time for the solved check
GuessResponseRederived(body, t, t2) ==
    LET word == trim(toLowerCase(body))
    IN  IF Len(word) # 5 THEN BadLength
        ELSE IF word \notin WORD_SET THEN NotInList
        ELSE [status |-> 200,
              body |-> [result |-> evaluate(word, getDailyWord(t)),
                        solved |-> word = getDailyWord(t2)]]

\* lines 64-79 for the request body { guess: body }.  t is the clock reading
\* when line 75 calls getDailyWord, t2 the reading when line 77 runs; the code
\* does not read the clock again there.
GuessResponse(body, t, t2) ==
    LET word == trim(toLowerCase(body))
    IN  IF Len(word) # 5 THEN BadLength
        ELSE IF word \notin WORD_SET THEN NotInList
        ELSE LET ans == getDailyWord(t)
             IN  [status |-> 200,
                  body |-> [result |-> evaluate(word, ans), solved |-> word = ans]]

\* strings posted as guess: words of the list, 5-letter strings that are not
\* words, shorter and longer strings, each in three spellings of case and
\* with or without a space before and after
BaseGuesses ==
    WORD_SET \cup
    { <<"z", "z", "z", "z", "z">>, <<"s", "p", " ", "e", "d">>,
      <<"s", "p", "e", "d">>, <<"a", "b">>, <<>>, <<" ">>,
      <<"s", "p", "e", "e", "d", "s">> }
UpperOf(c) == IF \E u \in DOMAIN LowerOf : LowerOf[u] = c
              THEN CHOOSE u \in DOMAIN LowerOf : LowerOf[u] = c
              ELSE c
Spellings(str) ==
    { str,
      [i \in 1..Len(str) |-> UpperOf(str[i])],
      [i \in 1..Len(str) |-> IF i = 1 THEN UpperOf(str[i]) ELSE str[i]] }
Padded(str) == {l \o str \o r : l \in {<<>>, <<" ">>}, r \in {<<>>, <<" ">>}}
RawGuesses == UNION {Padded(sp) : sp \in UNION {Spellings(b) : b \in BaseGuesses}}

\* clock readings on 2025-01-01, -02 and -03
GuessTimes == {0, MsPerDay - 1, MsPerDay, 2 * MsPerDay}

\* app.post("/api/guess"): a request arrives, the clock may move on while the
\* handler runs, the response is sent
GuessHandler ==
    /\ gResp = {}
    /\ \E body \in RawGuesses, t2 \in GuessTimes :
          /\ t2 >= now
          /\ gReq' = {[guess |-> body, at |-> now]}
          /\ gResp' = {GuessResponse(body, now, t2)}
          /\ now' = t2
    /\ UNCHANGED <<dateStr, hashI, hash, wordIndex, hashPc, gameLog, clientVars, solveVars, evalVars>>

InitGuess ==
    /\ InitSolve
    /\ EvalIdle
    /\ DailyWordIdle
    /\ now \in GuessTimes
    /\ gameLog = <<>>
    /\ GuessIdle
    /\ ClientInit

NextGuess == GuessHandler

\* POST /api/guess on every string of RawGuesses
SpecGuess == InitGuess /\ [][NextGuess]_vars

(* ------------------------ the page (App.tsx) --------------------------- *)
\* One life of the page, opened with nothing saved in localStorage.  The
\* fetches to /api/game and /api/guess are answered at the clock reading at
\* which they are sent.

\* the reveal animation: setTimeout(..., 5 * 200 + 300)
RevealMs == 1300

\* clock readings before and after the midnight that ends 2025-01-01
PlayTimes ==
    {MsPerDay - 3000, MsPerDay - 1500, MsPerDay - 1, MsPerDay, MsPerDay + 1300,
     MsPerDay + 3000}

\* words typed: handleKey admits letters only, lowercased, five at most
TypedWords == WORD_SET \cup {<<"z", "z", "z", "z", "z">>}

\* the keyboard update that lets "present" overwrite "correct"
KeyStepPresentOverwrites(next, letter, state) ==
    IF state = "correct" THEN (letter :> "correct") @@ next
    ELSE IF state = "present" THEN (letter :> "present") @@ next
    ELSE IF letter \notin DOMAIN next THEN (letter :> state) @@ next
    ELSE next

\* lines 181-190: the body of the loop of setKeyStates for one letter
KeyStep(next, letter, state) ==
    IF state = "correct" THEN (letter :> "correct") @@ next
    ELSE IF state = "present" /\ ~(letter \in DOMAIN next /\ next[letter] = "correct")
         THEN (letter :> "present") @@ next
    ELSE IF letter \notin DOMAIN next THEN (letter :> state) @@ next
    ELSE next

RECURSIVE UpdateKeys(_, _, _)
\* lines 178-193: the loop over the positions from i on
UpdateKeys(next, row, i) ==
    IF i > 5 THEN next
    ELSE UpdateKeys(KeyStep(next, row.letters[i], row.states[i]), row, i + 1)

PageTick ==
    /\ TickTo(PlayTimes)
    /\ UNCHANGED <<gameLog, guessVars, clientVars, solveVars, evalVars>>

\* lines 62-88: the effect fetches /api/game and sets the game number
PageLoad ==
    /\ gameNumber = {}
    /\ gameLog' = Append(gameLog, [at |-> now, gameNumber |-> getGameNumber(now)])
    /\ gameNumber' = {getGameNumber(now)}
    /\ UNCHANGED <<hashVars, guessVars, guesses, keyStates, solved, startTime,
                   submitting, timeout, posted, solveVars, evalVars>>

\* handleKey on a first letter, line 237: the timer starts
StartTyping ==
    /\ ~solved
    /\ startTime = {}
    /\ startTime' = {now}
    /\ UNCHANGED <<hashVars, gameLog, guessVars, gameNumber, guesses, keyStates,
                   solved, submitting, timeout, posted, solveVars, evalVars>>

\* submitGuess, lines 140-222, up to the setTimeout: the typed word is posted
\* to /api/guess; an error leaves the page as it is, a result adds a row,
\* updates the keyboard and schedules the callback
SubmitGuess ==
    /\ ~solved /\ ~submitting /\ gameNumber # {}
    /\ Len(guesses) < MaxRows
    /\ \E word \in TypedWords :
          LET st == IF startTime = {} THEN now ELSE CHOOSE t \in startTime : TRUE
              data == GuessResponse(word, now, now)
          IN  /\ startTime' = {st}
              /\ gReq' = {[guess |-> word, at |-> now]}
              /\ gResp' = {data}
              /\ IF "error" \in DOMAIN data.body
                 THEN UNCHANGED <<guesses, keyStates, submitting, timeout>>
                 ELSE LET newRow == [letters |-> word, states |-> data.body.result]
                      IN  /\ guesses' = Append(guesses, newRow)
                          /\ keyStates' = UpdateKeys(keyStates, newRow, 1)
                          /\ submitting' = TRUE
                          /\ timeout' = {[solved |-> data.body.solved,
                                          st |-> st,
                                          gameNumber |-> gameNumber,
                                          numGuesses |-> Len(guesses) + 1,
                                          due |-> now + RevealMs]}
    /\ UNCHANGED <<hashVars, gameLog, gameNumber, solved, posted, solveVars, evalVars>>

\* the callback of lines 196-222: a solving guess marks the page solved and
\* posts the solve with the game number the closure captured
RevealDone ==
    /\ \E cb \in timeout :
          /\ now >= cb.due
          /\ IF cb.solved
             THEN /\ solved' = TRUE
                  /\ posted' = posted \cup
                        {[gameNumber |-> CHOOSE g \in cb.gameNumber : TRUE,
                          timeMs |-> now - cb.st,
                          numGuesses |-> cb.numGuesses]}
             ELSE UNCHANGED <<solved, posted>>
    /\ submitting' = FALSE
    /\ timeout' = {}
    /\ UNCHANGED <<hashVars, gameLog, guessVars, gameNumber, guesses, keyStates,
                   startTime, solveVars, evalVars>>

InitPlay ==
    /\ InitSolve
    /\ EvalIdle
    /\ DailyWordIdle
    /\ now \in PlayTimes
    /\ gameLog = <<>>
    /\ GuessIdle
    /\ ClientInit

NextPlay == PageTick \/ PageLoad \/ StartTyping \/ SubmitGuess \/ RevealDone

\* a page played across the midnight between 2025-01-01 and 2025-01-02
SpecPlay == InitPlay /\ [][NextPlay]_vars

(* ----------------------- properties of /api/solve ---------------------- *)

Started == {r \in Reqs : pc[r] # "idle"}
\* requests whose conditional write (lines 94-101) has been passed
PastWrite == {r \in Reqs : pc[r] \in {"reread", "done"}}
Submitted(g) == {r \in Started : req[r].gameNumber = g}
SubmittedTimes(g) == {req[r].timeMs : r \in Submitted(g)}
StoredTimes(g) == {row.time_ms : row \in SelectRow(fastest_times, g)}
RowOf(r) == Row(req[r].gameNumber, req[r].timeMs, req[r].numGuesses)

\* C1: once every submitSolve call for a gameNumber has completed, whatever the
\* interleaving of their reads and writes, the stored time_ms is the minimum
\* timeMs among all the submissions for that gameNumber.
C1_StoredIsMinimum ==
    InFlight = {} =>
        \A g \in Games :
            Submitted(g) # {} => StoredTimes(g) = {Min(SubmittedTimes(g))}

\* C2: when the calls for one gameNumber run one after another and their times
\* are distinct, then in whatever order they ran the stored record is the
\* (timeMs, numGuesses) pair of the call that submitted the minimum time.
C2_OrderIndependent ==
    InFlight = {} =>
        \A g \in Games :
            Cardinality(SubmittedTimes(g)) = Cardinality(Submitted(g)) =>
                \A w \in Submitted(g) :
                    req[w].timeMs = Min(SubmittedTimes(g)) =>
                        SelectRow(fastest_times, g) = {RowOf(w)}

\* 500, 300, 700 submitted in this order for game 1, the fastest with its own
\* guess count
C2_Witness ==
    /\ \A r \in 1..3 : pc[r] = "done" /\ req[r].gameNumber = 1
    /\ req[1].timeMs = 500 /\ req[2].timeMs = 300 /\ req[3].timeMs = 700
    /\ req[1].numGuesses = 1 /\ req[2].numGuesses = 2 /\ req[3].numGuesses = 1
    /\ fastest_times = {Row(1, 300, 2)}

\* C3: the fastestTimeMs a call returns is never null and equals the minimum of
\* its own timeMs and the time recorded for its gameNumber when the call was
\* made (the row its first SELECT found).
C3_ReturnsFastest ==
    \A r \in Reqs :
        pc[r] = "done" =>
            resp[r].fastestTimeMs =
                {Min({req[r].timeMs} \cup {row.time_ms : row \in current[r]})}

\* C4: from one state to the next an existing record never disappears and is
\* only ever replaced by a record with a strictly smaller time_ms.
C4_NeverIncreases ==
    [][\A row \in fastest_times :
          \E new \in fastest_times' :
              /\ new.game_number = row.game_number
              /\ new = row \/ new.time_ms < row.time_ms]_vars

\* C5: a call made when a record for its gameNumber exists with time_ms <= its
\* timeMs does not change the table at its write step (lines 94-101), the only
\* step of the handler that writes; a tie with fewer guesses included.
C5_NoWriteUnlessFaster ==
    [][\A r \in Reqs :
          (/\ pc[r] = "check"
           /\ pc'[r] = "reread"
           /\ \E row \in current[r] : row.time_ms <= req[r].timeMs)
          => fastest_times' = fastest_times]_vars

\* a call that tied the stored time with fewer guesses has passed its write
\* step and the record is the one it found
C5_Witness ==
    \E r \in PastWrite :
        /\ \E row \in current[r] :
              row.time_ms = req[r].timeMs /\ req[r].numGuesses < row.num_guesses
        /\ SelectRow(fastest_times, req[r].gameNumber) = current[r]

\* C6: every stored row is the (gameNumber, timeMs, numGuesses) triple of one
\* single call that has passed its write step.
C6_RowFromOneSubmission ==
    \A row \in fastest_times : \E r \in PastWrite : row = RowOf(r)

\* a record (420, 1 guess) replaced by (419, 2 guesses)
C6_Witness ==
    /\ pc[1] = "done" /\ pc[2] = "done"
    /\ RowOf(1) = Row(1, 420, 1)
    /\ RowOf(2) = Row(1, 419, 2)
    /\ current[2] = {Row(1, 420, 1)}
    /\ fastest_times = {Row(1, 419, 2)}

\* C7: a step of a call for gameNumber g reads only the row of g and leaves the
\* row of every other gameNumber as it was; and when calls for pairwise
\* distinct gameNumbers have all completed, however they interleaved, the table
\* holds exactly one row per call, as if they had run one after another.
C7_StepIndependent ==
    \A r \in Reqs :
        pc'[r] # pc[r] =>
            /\ \A g \in Games :
                  g # req'[r].gameNumber =>
                      SelectRow(fastest_times', g) = SelectRow(fastest_times, g)
            /\ \A row \in current'[r] : row.game_number = req'[r].gameNumber

C7_DistinctGamesAsSequential ==
    (/\ InFlight = {}
     /\ \A r, q \in Started : r # q => req[r].gameNumber # req[q].gameNumber)
    => fastest_times = {RowOf(r) : r \in Started}

C7_Independent == [][C7_StepIndependent]_vars /\ []C7_DistinctGamesAsSequential

\* two overlapping calls for different gameNumbers, both written
C7_Witness ==
    /\ pc[1] = "reread" /\ pc[2] = "reread"
    /\ req[1].gameNumber # req[2].gameNumber
    /\ current[1] = {} /\ current[2] = {}
    /\ fastest_times = {RowOf(1), RowOf(2)}

(* ------------------------ properties of evaluate ----------------------- *)

\* positions of the guess holding x that were tagged correct or present
Marked(x) ==
    {i \in Positions : guess[i] = x /\ result[i] \in {"correct", "present"}}
Occurrences(word, x) == {i \in Positions : word[i] = x}

\* C8 as stated: evaluate("speed", "erase") marks exactly one of the two "e"
\* of the guess present or correct.
C8_OneEMarked ==
    (evalPc = "return" /\ guess = speed /\ answer = erase)
    => Cardinality(Marked("e")) = 1

\* C8: evaluate("speed", "erase") is [present, absent, present, present,
\* absent]: both "e" of the guess are marked present, "erase" holding two "e".
C8_SpeedErase ==
    (evalPc = "return" /\ guess = speed /\ answer = erase)
    => result = <<"present", "absent", "present", "present", "absent">>

C8_Witness ==
    /\ evalPc = "return" /\ guess = speed /\ answer = erase
    /\ Cardinality(Marked("e")) = 2

\* C9: for every letter x, the positions of the guess holding x that are tagged
\* correct or present are never more than the occurrences of x in the answer.
C9_NoDoubleCount ==
    evalPc = "return" =>
        \A x \in EvalLetters :
            Cardinality(Marked(x)) <= Cardinality(Occurrences(answer, x))

\* a guess with more "e" than the answer: only as many are marked as the
\* answer holds, the others are absent
C9_Witness ==
    /\ evalPc = "return"
    /\ Cardinality(Occurrences(guess, "e")) = 3
    /\ Cardinality(Occurrences(answer, "e")) = 2
    /\ Cardinality(Marked("e")) = 2
    /\ \E i \in Positions : guess[i] = "e" /\ answer[i] = "e"
    /\ \E i \in Positions : guess[i] = "e" /\ result[i] = "present"

\* C10: evaluate(w, w) is correct at all five positions.
C10_SelfAllCorrect ==
    (evalPc = "return" /\ guess = answer)
    => result = [i \in Positions |-> "correct"]

\* a word with a repeated letter evaluated against itself
C10_Witness ==
    /\ evalPc = "return" /\ guess = answer
    /\ guess = <<"a", "b", "e", "e", "a">>
    /\ result = <<"correct", "correct", "correct", "correct", "correct">>

\* C11: position i is tagged correct exactly when guess[i] = answer[i]; equal
\* letters are never tagged present or absent, different ones never correct.
C11_CorrectIffEqual ==
    evalPc = "return" =>
        \A i \in Positions : (result[i] = "correct") <=> (guess[i] = answer[i])

\* an exact match of a letter that also occurs elsewhere in both words, next
\* to a position that is present
C11_Witness ==
    /\ evalPc = "return"
    /\ \E i, j \in Positions :
          /\ i # j
          /\ guess[i] = answer[i] /\ result[i] = "correct"
          /\ guess[j] = guess[i] /\ guess[j] # answer[j] /\ result[j] = "present"

\* guess positions holding x that are not exact matches
NonMatching(x) == {i \in Positions : guess[i] = x /\ answer[i] # x}
\* occurrences of x in the answer that the guess does not match exactly
Unmatched(x) == {i \in Positions : answer[i] = x /\ guess[i] # x}
\* the k leftmost positions of P
Leftmost(P, k) == {i \in P : Cardinality({j \in P : j < i}) < k}

\* C16: for every letter x, among the guess positions holding x that are not
\* exact matches the leftmost k are tagged present and the others absent, with
\* k the smaller of their number and the number of occurrences of x in the
\* answer that are not exactly matched.
C16_LeftmostPresent ==
    evalPc = "return" =>
        \A x \in EvalLetters :
            LET k == Min({Cardinality(NonMatching(x)), Cardinality(Unmatched(x))})
            IN  \A i \in NonMatching(x) :
                    result[i] = IF i \in Leftmost(NonMatching(x), k)
                                THEN "present" ELSE "absent"

\* two non-matching "e" in the guess for one unmatched "e" in the answer: the
\* left one is present, the right one absent
C16_Witness ==
    /\ evalPc = "return"
    /\ Cardinality(NonMatching("e")) = 2
    /\ Cardinality(Unmatched("e")) = 1
    /\ \E i, j \in NonMatching("e") :
          i < j /\ result[i] = "present" /\ result[j] = "absent"

\* C17: the fastestTimeMs returned to a caller is never greater than the
\* timeMs that caller submitted, whatever the interleaving.
C17_NotSlowerThanOwn ==
    \A r \in Reqs :
        pc[r] = "done" => \A x \in resp[r].fastestTimeMs : x <= req[r].timeMs

(* ------------------ properties of the clock and the hash --------------- *)

\* C15 as a whole: each iteration of the loop equals hash * 31 + charCode
\* reduced to a signed 32-bit integer, overflow included; the index selected is
\* in 0..N-1 for the hash the loop ends with and for the extreme hash values,
\* -2^31 included; and the index is the one the date string alone determines.
Times31Plus(h, c) == ToInt32(Hi16(h) * 31, Lo16(h) * 31 + c)

C15_StepIsTimes31 ==
    hashI' = hashI + 1 =>
        /\ hash' = Times31Plus(hash, dateStr[hashI + 1])
        /\ hash' \in MinInt32..MaxInt32

C15_IndexInRange ==
    /\ hashPc = "return" =>
          /\ wordIndex \in 0..(Len(WORDS) - 1)
          /\ wordIndex = SelectIndex(HashOf(dateStr, 0, 0), Len(WORDS))
    /\ \A h \in {MinInt32, MinInt32 + 1, -1, 0, 1, MaxInt32} :
          SelectIndex(h, Len(WORDS)) \in 0..(Len(WORDS) - 1)

\* C15: the loop computes hash * 31 + charCode in wraparound signed 32-bit
\* arithmetic at every step, and abs(hash) % N is always an index of WORDS.
C15_HashAndIndex == [][C15_StepIsTimes31]_vars /\ []C15_IndexInRange

\* a call that overflowed, ended on a negative hash and selected a word
C15_Witness ==
    /\ hashPc = "return"
    /\ hash < 0
    /\ wordIndex \in 1..(Len(WORDS) - 1)
    /\ Len(dateStr) = 10
\* C14: of two game indexes, the one computed later is not smaller; two
\* computed on the same UTC calendar day are equal; two computed one
\* millisecond apart on either side of a UTC midnight differ by exactly 1.
C14_GameIndex ==
    \A i, j \in DOMAIN gameLog :
        i < j =>
            LET p == gameLog[i]
                q == gameLog[j]
            IN  /\ p.at <= q.at
                /\ p.gameNumber <= q.gameNumber
                /\ UTCFields(p.at) = UTCFields(q.at) => p.gameNumber = q.gameNumber
                /\ (q.at = p.at + 1 /\ UTCFields(p.at) # UTCFields(q.at))
                   => q.gameNumber = p.gameNumber + 1

\* the last millisecond of 2025-01-01 and the first of 2025-01-02
C14_Witness ==
    /\ Len(gameLog) >= 2
    /\ gameLog[1] = [at |-> MsPerDay - 1, gameNumber |-> 0]
    /\ gameLog[2] = [at |-> MsPerDay, gameNumber |-> 1]
    /\ UTCFields(gameLog[1].at) = [year |-> 2025, month |-> 0, date |-> 1]
    /\ UTCFields(gameLog[2].at) = [year |-> 2025, month |-> 0, date |-> 2]
(* --------------------- properties of POST /api/guess ------------------- *)

Tags == {"correct", "present", "absent"}
AllCorrect == [i \in Positions |-> "correct"]

\* C12: with w the guess lowercased and trimmed, a length other than 5 gives
\* "Word must be 5 letters" whatever the word list holds, a 5-letter w outside
\* the list gives "Not in word list", and otherwise the response carries
\* exactly 5 tags and a solved flag; an error response carries no result.
C12_Classified ==
    \A rq \in gReq : \A rs \in gResp :
        LET w == trim(toLowerCase(rq.guess))
        IN  /\ Len(w) # 5 => rs = BadLength
            /\ (Len(w) = 5 /\ w \notin WORD_SET) => rs = NotInList
            /\ (Len(w) = 5 /\ w \in WORD_SET) =>
                  /\ rs.status = 200
                  /\ DOMAIN rs.body = {"result", "solved"}
                  /\ Len(rs.body.result) = 5
                  /\ \A i \in 1..5 : rs.body.result[i] \in Tags
                  /\ rs.body.solved \in BOOLEAN
            /\ "error" \in DOMAIN rs.body => "result" \notin DOMAIN rs.body

\* " Speed" is accepted although the raw string has 6 characters
C12_Witness ==
    /\ \E rq \in gReq : rq.guess = <<" ", "S", "p", "e", "e", "d">>
    /\ \E rs \in gResp : rs.status = 200 /\ Len(rs.body.result) = 5

\* C13: in a successful response solved is true exactly when the normalized
\* guess is the answer of the clock reading at which the handler derived it,
\* and exactly when all five tags are correct, also when the clock passes a
\* UTC midnight during the call.
C13_Consistent ==
    \A rq \in gReq : \A rs \in gResp :
        rs.status = 200 =>
            /\ rs.body.solved <=> (trim(toLowerCase(rq.guess)) = getDailyWord(rq.at))
            /\ rs.body.solved <=> (rs.body.result = AllCorrect)

\* the answer of 2025-01-01 guessed in the last millisecond of that day, the
\* response sent on 2025-01-02, whose answer is another word
C13_Witness ==
    /\ \E rq \in gReq : rq.at = MsPerDay - 1
    /\ now = MsPerDay
    /\ getDailyWord(MsPerDay - 1) # getDailyWord(MsPerDay)
    /\ \E rs \in gResp : rs.status = 200 /\ rs.body.solved /\ rs.body.result = AllCorrect
(* ------------------------ properties of the page ----------------------- *)

\* C18: a solve posted to /api/solve carries the game number of the UTC day on
\* which the server derived the answer of the solving guess.
C18_SolveOnAnswerDay ==
    \A p \in posted : \A rq \in gReq : p.gameNumber = getGameNumber(rq.at)

Rank(state) == CASE state = "absent" -> 1 [] state = "present" -> 2 [] state = "correct" -> 3

\* C19: a key never loses its state and its state only moves up the order
\* absent < present < correct.
C19_KeysStep ==
    \A letter \in DOMAIN keyStates :
        /\ letter \in DOMAIN keyStates'
        /\ Rank(keyStates'[letter]) >= Rank(keyStates[letter])

C19_KeysOnlyRise == [][C19_KeysStep]_vars

\* a key that the first row made correct is tagged present in the second row
\* and is still correct
C19_Witness ==
    /\ Len(guesses) = 2
    /\ \E i, j \in 1..5 :
          /\ guesses[1].states[i] = "correct"
          /\ guesses[2].letters[j] = guesses[1].letters[i]
          /\ guesses[2].states[j] = "present"
          /\ \A k \in 1..5 : guesses[2].letters[k] = guesses[2].letters[j]
                               => guesses[2].states[k] # "correct"
          /\ keyStates[guesses[1].letters[i]] = "correct"

====
